---- MODULE Spec2Model ----
(***************************************************************************)
(* Model of the chunked text-to-speech pipeline of src/cli.py:             *)
(*   - the two worker threads rec_worker / play_worker joined by a bounded *)
(*     queue.Queue(maxsize=2), and main's post-join assembler;             *)
(*   - the pure function chunk_text, run loop iteration by loop iteration. *)
(* Specification Spec is the pipeline; SpecChunk is chunk_text on bounded  *)
(* texts; SpecMain is main from the parsed command line to its return.     *)
(***************************************************************************)
EXTENDS Integers, Sequences, FiniteSets, TLC

\* ------------------------------------------------------------------ bounds
MaxChunks == 3          \* most chunks handed to the pipeline
MaxTextLen == 6         \* longest text given to chunk_text
MaxMaxLen == 3          \* largest max_len given to chunk_text
MaxPaths == 3           \* most paths given to concat_wav_files

\* --------------------------------------------------------- program constants
QUEUE_MAXSIZE == 2      \* queue.Queue(maxsize=2)

Formats == {"play", "file", "stdout"}
Engines == {"gtts", "pyttsx3"}

\* bytes: 0 is b"", k > 0 is the audio the engine returned for chunk k
EmptyBytes == 0
\* a path at which no file exists
Absent == -1
\* names tempfile.mkstemp can hand out; the program never looks into a name
TmpNames == (MaxChunks + 1)..(2 * MaxChunks)
\* the queue item None
Sentinel == [idx |-> 0, tmp_path |-> 0, audio_bytes |-> 0]
\* exit code of a main that has not returned
NoExit == -1

\* Python's None where a str is expected (a str is a sequence of tokens)
None == <<"None">>
\* the file system before any final file is written
NoFiles == [d \in {} |-> Absent]

QueueItem(i, p, b) == [idx |-> i, tmp_path |-> p, audio_bytes |-> b]

VARIABLES
    \* ---- main
    mainPc,           \* position of main
    exit_code,        \* value main returned
    text_chunks,      \* N, len(chunks)
    engine,
    output_formats,
    args,             \* the parsed command line
    language,
    output_filename,
    stdout_text,      \* lines printed with file=sys.stdout
    stderr_text,      \* lines printed with file=sys.stderr
    saved_files,      \* list of final destinations
    as_i,             \* loop index of the assembler loops
    stdout_bytes,     \* what was written to sys.stdout.buffer
    \* ---- file system
    fs_tmp,           \* temp path -> content, or Absent
    fs_final,         \* final destination -> content, or Absent
    \* ---- rec_worker
    recPc, rec_i, rec_audio, rec_tmp,
    \* ---- queue
    q,
    enqueued,         \* every element ever put, in order
    \* ---- play_worker
    playPc, play_item, collected_paths,
    played,           \* idx of each play_func call, in order
    \* ---- history of faults
    tts_failed, write_failed, play_failed, unlink_failed,
    \* ---- chunk_text
    cPc, text, max_len, parts, p_i, chunks, buf, cur_len,
    \* ---- concat_wav_files
    wPc,              \* position of concat_wav_files
    in_paths,         \* the files at in_paths, in order
    w_i,              \* index of the input of this iteration
    first,
    wout_open,        \* the writer wout is open
    win_open,         \* indices of the inputs that are open
    out_stream,       \* what has been written to out_stream
    w_raised,         \* an exception is on its way out
    warned,           \* indices a params-mismatch warning was logged for
    \* ---- validate_text, validate_engine
    vPc, v_in, v_out

\* the formats of the list output_formats
FormatSet == {output_formats[k] : k \in DOMAIN output_formats}

argVars == <<args, language, output_filename>>
textVars == <<stdout_text, stderr_text>>
mainVars == <<mainPc, exit_code, text_chunks, engine, output_formats,
              argVars, textVars, saved_files, as_i, stdout_bytes>>
fsVars == <<fs_tmp, fs_final>>
recVars == <<recPc, rec_i, rec_audio, rec_tmp>>
qVars == <<q, enqueued>>
playVars == <<playPc, play_item, collected_paths, played>>
faultVars == <<tts_failed, write_failed, play_failed, unlink_failed>>
chunkVars == <<cPc, text, max_len, parts, p_i, chunks, buf, cur_len>>
concatVars == <<wPc, in_paths, w_i, first, wout_open, win_open, out_stream,
                w_raised, warned>>
valVars == <<vPc, v_in, v_out>>
libVars == <<concatVars, valVars>>
pipeVars == <<mainVars, fsVars, recVars, qVars, playVars, faultVars>>
vars == <<pipeVars, chunkVars, libVars>>

\* ==================================================================== paths
\* A path is a sequence of tokens: "/" is os.sep, "." a dot, "_" an
\* underscore, a digit is itself, any other token is a run of characters
\* without one of these. "TS" is what datetime.now().strftime gives; it has
\* no separator or dot in it.

\* get_config() without a .env file
config ==
    [engine |-> "gtts", language |-> <<"e", "n">>,
     audio_directory |-> <<"audio">>, filename_prefix |-> <<>>]

\* the directories that exist when main starts
ExistingDirs == {<<"d">>, <<"d", "/">>, <<"audio">>}
\* os.path.isdir(p)
IsDir(p) == p \in ExistingDirs

\* the decimal digits of n >= 0
RECURSIVE Digits(_)
Digits(n) ==
    LET d == <<"0", "1", "2", "3", "4", "5", "6", "7", "8", "9">> IN
    IF n < 10 THEN <<d[n + 1]>> ELSE Digits(n \div 10) \o <<d[(n % 10) + 1]>>

\* Pad3 without the zero padding
Pad3_nopad(i) == Digits(i)

\* f"{i:03d}"
Pad3(i) ==
    LET ds == Digits(i) IN
    IF Len(ds) >= 3 THEN ds ELSE [k \in 1..(3 - Len(ds)) |-> "0"] \o ds

\* os.path.splitext(p): cut at the last dot of the last component, unless
\* only dots come before it in that component
SplitExt(p) ==
    LET seps == {k \in 1..Len(p) : p[k] = "/"}
        sepIndex == IF seps = {} THEN 0
                    ELSE CHOOSE k \in seps : \A j \in seps : j <= k
        dots == {k \in (sepIndex + 1)..Len(p) : p[k] = "."}
        dotIndex == IF dots = {} THEN 0
                    ELSE CHOOSE k \in dots : \A j \in dots : j <= k
    IN  IF dotIndex > sepIndex
           /\ \E k \in (sepIndex + 1)..(dotIndex - 1) : p[k] # "."
        THEN <<SubSeq(p, 1, dotIndex - 1), SubSeq(p, dotIndex, Len(p))>>
        ELSE <<p, <<>>>>

\* os.path.join(a, b) for a relative b
PathJoin(a, b) ==
    IF a = <<>> \/ a[Len(a)] = "/" THEN a \o b ELSE a \o <<"/">> \o b

\* generate_timestamp_filename(prefix, extension)
generate_timestamp_filename(prefix, extension) ==
    IF prefix # <<>> THEN prefix \o <<"_", "TS", ".", extension>>
    ELSE <<"TS", ".", extension>>

\* ext = "mp3" if engine == "gtts" else "wav"
ext == IF engine = "gtts" THEN "mp3" ELSE "wav"

\* output_filename when "file" is a format and --file was not given
DefaultOutputFilename ==
    LET extension == IF engine \in {"pyttsx3", "pipertts"} THEN "wav"
                     ELSE "mp3"
    IN  PathJoin(config.audio_directory,
                 generate_timestamp_filename(config.filename_prefix,
                                             extension))

\* ============================================================ command line
\* a format name as the str it is on the command line
FormatChars(f) ==
    CASE f = "play" -> <<"p", "l", "a", "y">>
      [] f = "file" -> <<"f", "i", "l", "e">>
      [] f = "stdout" -> <<"s", "t", "d", "o", "u", "t">>

\* ",".join(names)
RECURSIVE JoinComma(_)
JoinComma(names) ==
    IF names = <<>> THEN <<>>
    ELSE IF Len(names) = 1 THEN FormatChars(names[1])
    ELSE FormatChars(names[1]) \o <<",">> \o JoinComma(Tail(names))

\* the lists main can build: non-empty, no format twice
FormatLists ==
    {l \in UNION {[1..n -> Formats] : n \in 1..3} :
        \A i, j \in DOMAIN l : i # j => l[i] # l[j]}

\* argparse's value of an option that was not given
NoEngine == ""

\* validate_engine(e) returns: the engine module exists and is available
validate_engine(e) == e # NoEngine /\ e \in Engines
\* validate_language(l) returns
validate_language(l) == Len(l) = 2

\* a command line "-i in -q -o <formats> [-e engine]" that makes main reach
\* rec.start() with these formats and this engine
PipeArgs(fmts, eng) ==
    [text |-> None, text_file |-> <<"in">>, output |-> JoinComma(fmts),
     file |-> None, play |-> FALSE, stdout |-> FALSE, quiet |-> TRUE,
     engine |-> eng, language |-> <<"e", "n">>, audio_dir |-> None]

\* ================================================= library calls, at rest
\* What the wave module sees of a file: whether it is a readable WAV file,
\* its (nchannels, sampwidth, framerate) and the bytes of its data chunk.
NoParams == <<0, 0, 0>>
NotWav == [valid |-> FALSE, params |-> NoParams, frames |-> <<>>]
Wav(ps, fr) == [valid |-> TRUE, params |-> ps, frames |-> fr]
\* an out_stream nothing was written to
NoOutput == [written |-> FALSE, params |-> NoParams, frames |-> <<>>]

\* concat_wav_files is not running
ConcatIdle ==
    /\ wPc = "idle" /\ in_paths = <<>> /\ w_i = 1 /\ first = TRUE
    /\ wout_open = FALSE /\ win_open = {} /\ out_stream = NoOutput
    /\ w_raised = FALSE /\ warned = {}

\* no validator is running
NoValue == [kind |-> "none"]
ValIdle == vPc = "idle" /\ v_in = NoValue /\ v_out = NoValue

LibIdle == ConcatIdle /\ ValIdle

\* ================================================================ pipeline

\* nothing started, nothing written
WorkersIdle ==
    /\ exit_code = NoExit
    /\ saved_files = <<>>
    /\ as_i = 1
    /\ stdout_bytes = <<>>
    /\ stdout_text = <<>> /\ stderr_text = <<>>
    /\ fs_tmp = [p \in TmpNames |-> Absent]
    /\ fs_final = NoFiles
    /\ recPc = "idle" /\ rec_i = 1 /\ rec_audio = EmptyBytes /\ rec_tmp = 0
    /\ q = <<>> /\ enqueued = <<>>
    /\ playPc = "idle" /\ play_item = Sentinel /\ collected_paths = <<>>
    /\ played = <<>>
    /\ tts_failed = {} /\ write_failed = {} /\ play_failed = {}
    /\ unlink_failed = {}

\* main at "rec.start()"
PipeIdle ==
    /\ mainPc = "start"
    /\ WorkersIdle

ChunkIdle ==
    /\ cPc = "idle" /\ text = <<>> /\ max_len = 1 /\ parts = <<>> /\ p_i = 1
    /\ chunks = <<>> /\ buf = <<>> /\ cur_len = 0

\* main at rec.start(), the input file having been cut into text_chunks
\* chunks
Init ==
    /\ PipeIdle
    /\ text_chunks \in 0..MaxChunks
    /\ engine \in Engines
    /\ output_formats \in FormatLists
    /\ args = PipeArgs(output_formats, engine)
    /\ language = args.language
    /\ output_filename = IF "file" \in FormatSet THEN DefaultOutputFilename
                         ELSE None
    /\ ChunkIdle
    /\ LibIdle

\* ---------------------------------------------------------------- rec_worker

\* RecLoop with the loop ending one chunk early
RecLoop_offbyone(i) == IF i < text_chunks THEN "tts" ELSE "sentinel"

\* top of the for loop, or the statement after it
RecLoop(i) == IF i <= text_chunks THEN "tts" ELSE "sentinel"

\* RecTTS whose except branch goes on to the next chunk without an item
RecTTS_skip ==
    /\ recPc = "tts"
    /\ \E ok \in BOOLEAN :
          /\ rec_audio' = IF ok THEN rec_i ELSE EmptyBytes
          /\ tts_failed' = IF ok THEN tts_failed ELSE tts_failed \cup {rec_i}
          /\ rec_i' = IF ok THEN rec_i ELSE rec_i + 1
          /\ recPc' = IF ok THEN "mkstemp"
                      ELSE IF rec_i + 1 <= text_chunks THEN "tts"
                      ELSE "sentinel"
    /\ UNCHANGED <<rec_tmp, mainVars, fsVars, qVars, playVars,
                   write_failed, play_failed, unlink_failed, chunkVars, libVars>>

\* audio_bytes = text_to_speech_bytes(...), or b"" when it raises
RecTTS ==
    /\ recPc = "tts"
    /\ \E ok \in (IF validate_engine(engine) /\ validate_language(language)
                  THEN BOOLEAN ELSE {FALSE}) :
          /\ rec_audio' = IF ok THEN rec_i ELSE EmptyBytes
          /\ tts_failed' = IF ok THEN tts_failed ELSE tts_failed \cup {rec_i}
    /\ recPc' = "mkstemp"
    /\ UNCHANGED <<rec_i, rec_tmp, mainVars, fsVars, qVars, playVars,
                   write_failed, play_failed, unlink_failed, chunkVars, libVars>>

\* FreshNames of an mkstemp that may hand out a name again
FreshNames_reuse == TmpNames

\* names mkstemp has not handed out yet
FreshNames ==
    {n \in TmpNames : fs_tmp[n] = Absent /\ n \notin
        {enqueued[k].tmp_path : k \in 1..Len(enqueued)}}

\* fd, tmp_path = tempfile.mkstemp(suffix=tmp_suffix); os.close(fd): creates
\* an empty file under a name not used before (names being opaque, the
\* least fresh one stands for any)
RecMkstemp ==
    /\ recPc = "mkstemp"
    /\ FreshNames # {}
    /\ LET p == CHOOSE n \in FreshNames : \A m \in FreshNames : n <= m IN
          /\ fs_tmp' = [fs_tmp EXCEPT ![p] = EmptyBytes]
          /\ rec_tmp' = p
    /\ recPc' = "write"
    /\ UNCHANGED <<rec_i, rec_audio, fs_final, mainVars, qVars, playVars,
                   faultVars, chunkVars, libVars>>

\* mkstemp raises: outside every try, the exception ends the thread
RecMkstempRaises ==
    /\ recPc = "mkstemp"
    /\ recPc' = "crashed"
    /\ UNCHANGED <<rec_i, rec_audio, rec_tmp, fsVars, mainVars, qVars,
                   playVars, faultVars, chunkVars, libVars>>

\* with open(tmp_path, "wb") as f: f.write(audio_bytes), failure logged
RecWrite ==
    /\ recPc = "write"
    /\ \E ok \in BOOLEAN :
          /\ fs_tmp' = IF ok THEN [fs_tmp EXCEPT ![rec_tmp] = rec_audio]
                       ELSE fs_tmp
          /\ write_failed' = IF ok THEN write_failed
                             ELSE write_failed \cup {rec_i}
    /\ recPc' = "put"
    /\ UNCHANGED <<rec_i, rec_audio, rec_tmp, fs_final, mainVars, qVars,
                   playVars, tts_failed, play_failed, unlink_failed,
                   chunkVars, libVars>>

\* QueuePut on a queue that hands out the newest element first
QueuePut_lifo(x) ==
    /\ Len(q) < QUEUE_MAXSIZE
    /\ q' = <<x>> \o q
    /\ enqueued' = Append(enqueued, x)

\* q.put(x) on a Queue(maxsize): blocks while the queue is full
QueuePut(x) ==
    /\ Len(q) < QUEUE_MAXSIZE
    /\ q' = Append(q, x)
    /\ enqueued' = Append(enqueued, x)

\* RecPut on a queue without maxsize
RecPut_unbounded ==
    /\ recPc = "put"
    /\ q' = Append(q, QueueItem(rec_i, rec_tmp, rec_audio))
    /\ enqueued' = Append(enqueued, QueueItem(rec_i, rec_tmp, rec_audio))
    /\ rec_i' = rec_i + 1
    /\ recPc' = IF rec_i + 1 <= text_chunks THEN "tts" ELSE "sentinel"
    /\ UNCHANGED <<rec_audio, rec_tmp, fsVars, mainVars, playVars,
                   faultVars, chunkVars, libVars>>

\* q.put((i, tmp_path, audio_bytes)), then the next iteration
RecPut ==
    /\ recPc = "put"
    /\ QueuePut(QueueItem(rec_i, rec_tmp, rec_audio))
    /\ rec_i' = rec_i + 1
    /\ recPc' = RecLoop(rec_i + 1)
    /\ UNCHANGED <<rec_audio, rec_tmp, fsVars, mainVars, playVars,
                   faultVars, chunkVars, libVars>>

\* q.put(None)
RecPutSentinel ==
    /\ recPc = "sentinel"
    /\ QueuePut(Sentinel)
    /\ recPc' = "done"
    /\ UNCHANGED <<rec_i, rec_audio, rec_tmp, fsVars, mainVars, playVars,
                   faultVars, chunkVars, libVars>>

rec_worker ==
    \/ RecTTS \/ RecMkstemp \/ RecMkstempRaises \/ RecWrite
    \/ RecPut \/ RecPutSentinel

\* --------------------------------------------------------------- play_worker

\* item = q.get(); break on None; collected_paths.append(tmp_path)
PlayGet ==
    /\ playPc = "get"
    /\ q # <<>>
    /\ q' = Tail(q)
    /\ IF Head(q) = Sentinel
       THEN /\ playPc' = "done"
            /\ UNCHANGED <<play_item, collected_paths>>
       ELSE /\ play_item' = Head(q)
            /\ collected_paths' = Append(collected_paths, Head(q).tmp_path)
            /\ playPc' = IF "play" \in FormatSet THEN "play" ELSE "get"
    /\ UNCHANGED <<enqueued, played, mainVars, fsVars, recVars, faultVars,
                   chunkVars, libVars>>

\* PlayPlay without the try/except: a playback error ends the thread
PlayPlay_uncaught ==
    /\ playPc = "play"
    /\ played' = Append(played, play_item.idx)
    /\ \E ok \in BOOLEAN :
          /\ play_failed' = IF ok THEN play_failed
                            ELSE play_failed \cup {play_item.idx}
          /\ playPc' = IF ok THEN "get" ELSE "done"
    /\ UNCHANGED <<play_item, collected_paths, qVars, mainVars, fsVars,
                   recVars, tts_failed, write_failed, unlink_failed,
                   chunkVars, libVars>>

\* play_func(audio_bytes), an Exception is logged
PlayPlay ==
    /\ playPc = "play"
    /\ played' = Append(played, play_item.idx)
    /\ \E ok \in BOOLEAN :
          play_failed' = IF ok THEN play_failed
                         ELSE play_failed \cup {play_item.idx}
    /\ playPc' = "get"
    /\ UNCHANGED <<play_item, collected_paths, qVars, mainVars, fsVars,
                   recVars, tts_failed, write_failed, unlink_failed,
                   chunkVars, libVars>>

play_worker == PlayGet \/ PlayPlay

\* ---------------------------------------------------------------------- main

\* rec.start(); play.start()
MainStart ==
    /\ mainPc = "start"
    /\ recPc' = RecLoop(1)
    /\ playPc' = "get"
    /\ mainPc' = "join_rec"
    /\ UNCHANGED <<exit_code, text_chunks, engine, output_formats,
                   argVars, textVars,
                   saved_files, as_i, stdout_bytes, rec_i, rec_audio,
                   rec_tmp, fsVars, qVars, play_item, collected_paths,
                   played, faultVars, chunkVars, libVars>>

\* rec.join(): returns once the thread has ended, by return or exception
MainJoinRec ==
    /\ mainPc = "join_rec"
    /\ recPc \in {"done", "crashed"}
    /\ mainPc' = "join_play"
    /\ UNCHANGED <<exit_code, text_chunks, engine, output_formats,
                   argVars, textVars,
                   saved_files, as_i, stdout_bytes, fsVars, recVars, qVars,
                   playVars, faultVars, chunkVars, libVars>>

\* MainJoinPlay without play.join()
MainJoinPlay_nojoin ==
    /\ mainPc = "join_play"
    /\ mainPc' = IF "file" \in FormatSet THEN "file" ELSE "stdout"
    /\ as_i' = 1
    /\ UNCHANGED <<exit_code, text_chunks, engine, output_formats,
                   argVars, textVars,
                   saved_files, stdout_bytes, fsVars, recVars, qVars,
                   playVars, faultVars, chunkVars, libVars>>

\* play.join()
MainJoinPlay ==
    /\ mainPc = "join_play"
    /\ playPc = "done"
    /\ mainPc' = IF "file" \in FormatSet THEN "file" ELSE "stdout"
    /\ as_i' = 1
    /\ UNCHANGED <<exit_code, text_chunks, engine, output_formats,
                   argVars, textVars,
                   saved_files, stdout_bytes, fsVars, recVars, qVars,
                   playVars, faultVars, chunkVars, libVars>>

\* bool(s) of an Optional[str]
Truthy(s) == s # None /\ s # <<>>

\* Dst that numbers every file 001
Dst_noindex(i) ==
    IF Truthy(output_filename) /\ ~IsDir(output_filename)
    THEN LET base == SplitExt(output_filename)[1]
             e == SplitExt(output_filename)[2]
             ext2 == IF e = <<>> THEN <<".", ext>> ELSE e
         IN  base \o <<"_">> \o Pad3(1) \o ext2
    ELSE LET out_dir ==
                 IF Truthy(output_filename) /\ IsDir(output_filename)
                 THEN output_filename
                 ELSE IF Truthy(args.audio_dir) THEN args.audio_dir
                 ELSE config.audio_directory
             fname == generate_timestamp_filename(
                          <<"part", "_">> \o Pad3(1) \o <<"_">>, ext)
         IN  PathJoin(out_dir, fname)

\* dst of the i-th collected path: per-file mode when output_filename is
\* given and is no directory, directory mode otherwise
Dst(i) ==
    IF Truthy(output_filename) /\ ~IsDir(output_filename)
    THEN LET base == SplitExt(output_filename)[1]
             e == SplitExt(output_filename)[2]
             ext2 == IF e = <<>> THEN <<".", ext>> ELSE e
         IN  base \o <<"_">> \o Pad3(i) \o ext2
    ELSE LET out_dir ==
                 IF Truthy(output_filename) /\ IsDir(output_filename)
                 THEN output_filename
                 ELSE IF Truthy(args.audio_dir) THEN args.audio_dir
                 ELSE config.audio_directory
             fname == generate_timestamp_filename(
                          <<"part", "_">> \o Pad3(i) \o <<"_">>, ext)
         IN  PathJoin(out_dir, fname)

\* one iteration of "for i, p in enumerate(collected_paths, start=1)":
\* os.replace(p, dst); saved_files.append(dst)
MainReplace ==
    /\ mainPc = "file"
    /\ as_i <= Len(collected_paths)
    /\ LET p == collected_paths[as_i] IN
          /\ fs_final' = (Dst(as_i) :> fs_tmp[p]) @@ fs_final
          /\ fs_tmp' = [fs_tmp EXCEPT ![p] = Absent]
    /\ saved_files' = Append(saved_files, Dst(as_i))
    /\ as_i' = as_i + 1
    /\ UNCHANGED <<mainPc, exit_code, text_chunks, engine, output_formats,
                   argVars, textVars,
                   stdout_bytes, recVars, qVars, playVars, faultVars,
                   chunkVars, libVars>>

\* MainFileDone that prints the paths to sys.stdout whatever the formats
MainFileDone_tostdout ==
    /\ mainPc = "file"
    /\ as_i > Len(collected_paths)
    /\ stdout_text' = stdout_text \o saved_files
    /\ mainPc' = "stdout"
    /\ UNCHANGED <<exit_code, text_chunks, engine, output_formats, argVars,
                   stderr_text, saved_files, as_i, stdout_bytes, fsVars,
                   recVars, qVars, playVars, faultVars, chunkVars, libVars>>

\* the rename loop is over: print(fpath) for every saved file, to sys.stdout
\* unless stdout carries the audio, then to sys.stderr
MainFileDone ==
    /\ mainPc = "file"
    /\ as_i > Len(collected_paths)
    /\ IF "stdout" \notin FormatSet
       THEN /\ stdout_text' = stdout_text \o saved_files
            /\ UNCHANGED stderr_text
       ELSE /\ stderr_text' = stderr_text \o saved_files
            /\ UNCHANGED stdout_text
    /\ mainPc' = "stdout"
    /\ UNCHANGED <<exit_code, text_chunks, engine, output_formats,
                   argVars,
                   saved_files, as_i, stdout_bytes, fsVars, recVars, qVars,
                   playVars, faultVars, chunkVars, libVars>>

\* src_list = saved_files if saved_files else collected_paths, as contents
SrcContents ==
    IF saved_files # <<>>
    THEN [k \in 1..Len(saved_files) |-> fs_final[saved_files[k]]]
    ELSE [k \in 1..Len(collected_paths) |-> fs_tmp[collected_paths[k]]]

\* wave.open(p, "rb") raises EOFError on a file without a RIFF header
WaveReadable(content) == content # EmptyBytes /\ content # Absent

\* concat_wav_files(src_list, stdout_buf) returns normally
ConcatWavOk(src) == \A k \in 1..Len(src) : WaveReadable(src[k])

\* after the stdout stage
AfterStdout == IF "file" \in FormatSet THEN "return" ELSE "cleanup"

\* "if out_is_stdout" is false
MainSkipStdout ==
    /\ mainPc = "stdout"
    /\ "stdout" \notin FormatSet
    /\ mainPc' = AfterStdout
    /\ as_i' = 1
    /\ UNCHANGED <<exit_code, text_chunks, engine, output_formats,
                   argVars, textVars,
                   saved_files, stdout_bytes, fsVars, recVars, qVars,
                   playVars, faultVars, chunkVars, libVars>>

\* the line printed before MP3 chunks are written one after the other
Mp3Warning == <<"WARNING: multiple MP3 chunks written sequentially">>

\* engine == "gtts": the warning to sys.stderr, then every source file's
\* bytes written in order
MainStdoutMp3 ==
    /\ mainPc = "stdout"
    /\ "stdout" \in FormatSet
    /\ engine = "gtts"
    /\ stderr_text' = Append(stderr_text, Mp3Warning)
    /\ stdout_bytes' = stdout_bytes \o SrcContents
    /\ mainPc' = AfterStdout
    /\ as_i' = 1
    /\ UNCHANGED <<exit_code, text_chunks, engine, output_formats,
                   argVars, stdout_text,
                   saved_files, fsVars, recVars, qVars, playVars, faultVars,
                   chunkVars, libVars>>

\* other engines: concat_wav_files into a buffer, the buffer to stdout
MainStdoutWav ==
    /\ mainPc = "stdout"
    /\ "stdout" \in FormatSet
    /\ engine # "gtts"
    /\ ConcatWavOk(SrcContents)
    /\ stdout_bytes' = stdout_bytes \o SrcContents
    /\ mainPc' = AfterStdout
    /\ as_i' = 1
    /\ UNCHANGED <<exit_code, text_chunks, engine, output_formats,
                   argVars, textVars,
                   saved_files, fsVars, recVars, qVars, playVars, faultVars,
                   chunkVars, libVars>>

\* concat_wav_files raises: "except Exception" of main, return 1
MainStdoutWavRaises ==
    /\ mainPc = "stdout"
    /\ "stdout" \in FormatSet
    /\ engine # "gtts"
    /\ ~ConcatWavOk(SrcContents)
    /\ mainPc' = "returned"
    /\ exit_code' = 1
    /\ UNCHANGED <<text_chunks, engine, output_formats, argVars, textVars,
                   saved_files, as_i, stdout_bytes, fsVars, recVars, qVars, playVars, faultVars,
                   chunkVars, libVars>>

\* one iteration of the deletion loop: os.unlink(p), any failure swallowed
MainUnlink ==
    /\ mainPc = "cleanup"
    /\ as_i <= Len(collected_paths)
    /\ LET p == collected_paths[as_i] IN
       \E ok \in BOOLEAN :
          /\ fs_tmp' = IF ok THEN [fs_tmp EXCEPT ![p] = Absent] ELSE fs_tmp
          /\ unlink_failed' = IF ok THEN unlink_failed
                              ELSE unlink_failed \cup {p}
    /\ as_i' = as_i + 1
    /\ UNCHANGED <<mainPc, exit_code, text_chunks, engine, output_formats,
                   argVars, textVars,
                   saved_files, stdout_bytes, fs_final, recVars, qVars,
                   playVars, tts_failed, write_failed, play_failed,
                   chunkVars, libVars>>

\* the deletion loop is over
MainCleanupDone ==
    /\ mainPc = "cleanup"
    /\ as_i > Len(collected_paths)
    /\ mainPc' = "return"
    /\ UNCHANGED <<exit_code, text_chunks, engine, output_formats,
                   argVars, textVars,
                   saved_files, as_i, stdout_bytes, fsVars, recVars, qVars,
                   playVars, faultVars, chunkVars, libVars>>

\* return 0
MainReturn ==
    /\ mainPc = "return"
    /\ mainPc' = "returned"
    /\ exit_code' = 0
    /\ UNCHANGED <<text_chunks, engine, output_formats, argVars, textVars,
                   saved_files, as_i, stdout_bytes, fsVars, recVars, qVars, playVars, faultVars,
                   chunkVars, libVars>>

\* the steps of main after both joins
assembler ==
    \/ MainReplace \/ MainFileDone
    \/ MainSkipStdout \/ MainStdoutMp3 \/ MainStdoutWav \/ MainStdoutWavRaises
    \/ MainUnlink \/ MainCleanupDone
    \/ MainReturn

main == MainStart \/ MainJoinRec \/ MainJoinPlay \/ assembler

Next == main \/ rec_worker \/ play_worker

Spec == Init /\ [][Next]_vars

\* ============================================================== chunk_text
\* A str is a sequence of one-character strings.

Chars == {"a", "b", " ", ".", "\n"}
Texts == UNION {[1..n -> Chars] : n \in 0..MaxTextLen}

\* str.strip() removes these
IsSpace(c) == c \in {" ", "\n"}
\* SPLIT_REGEX = (?<=[.!?]|,|\n): the empty match after one of these
IsDelim(c) == c \in {".", "!", "?", ",", "\n"}

\* s.lstrip(): from the first character that is no whitespace on
LStrip(s) ==
    IF \A i \in 1..Len(s) : IsSpace(s[i]) THEN <<>>
    ELSE SubSeq(s, CHOOSE i \in 1..Len(s) :
                       ~IsSpace(s[i]) /\ \A j \in 1..(i - 1) : IsSpace(s[j]),
                Len(s))

\* s.rstrip(): up to the last character that is no whitespace
RStrip(s) ==
    IF \A i \in 1..Len(s) : IsSpace(s[i]) THEN <<>>
    ELSE SubSeq(s, 1, CHOOSE i \in 1..Len(s) :
                          /\ ~IsSpace(s[i])
                          /\ \A j \in (i + 1)..Len(s) : IsSpace(s[j]))

\* p.strip()
Strip(s) == RStrip(LStrip(s))

\* SPLIT_REGEX.split(text): cut after every delimiter; a text that ends in a
\* delimiter yields a last empty piece
RECURSIVE RegexSplit(_)
RegexSplit(s) ==
    LET cuts == {i \in 1..Len(s) : IsDelim(s[i])} IN
    IF cuts = {} THEN <<s>>
    ELSE LET i == CHOOSE c \in cuts : \A d \in cuts : c <= d IN
         <<SubSeq(s, 1, i)>> \o RegexSplit(SubSeq(s, i + 1, Len(s)))

\* StripKept that keeps the pieces as they were cut, without p.strip()
RECURSIVE StripKept_nostrip(_)
StripKept_nostrip(pieces) ==
    IF pieces = <<>> THEN <<>>
    ELSE LET p == Head(pieces) IN
         (IF p # <<>> /\ Strip(p) # <<>> THEN <<p>> ELSE <<>>)
            \o StripKept_nostrip(Tail(pieces))

\* [p.strip() for p in pieces if p and p.strip()]
RECURSIVE StripKept(_)
StripKept(pieces) ==
    IF pieces = <<>> THEN <<>>
    ELSE LET p == Head(pieces) IN
         (IF p # <<>> /\ Strip(p) # <<>> THEN <<Strip(p)>> ELSE <<>>)
            \o StripKept(Tail(pieces))

SplitParts(t) == StripKept(RegexSplit(t))

\* " ".join(b)
RECURSIVE Join(_)
Join(b) ==
    IF b = <<>> THEN <<>>
    ELSE IF Len(b) = 1 THEN b[1]
    ELSE b[1] \o <<" ">> \o Join(Tail(b))

\* Slices over range(0, len(p) - n + 1, n): the short last slice is lost
RECURSIVE Slices_droptail(_, _)
Slices_droptail(p, n) ==
    IF Len(p) < n THEN <<>>
    ELSE <<SubSeq(p, 1, n)>> \o Slices_droptail(SubSeq(p, n + 1, Len(p)), n)

\* [p[i : i + n] for i in range(0, len(p), n)]
RECURSIVE Slices(_, _)
Slices(p, n) ==
    IF p = <<>> THEN <<>>
    ELSE IF Len(p) <= n THEN <<p>>
    ELSE <<SubSeq(p, 1, n)>> \o Slices(SubSeq(p, n + 1, Len(p)), n)

\* the pipeline variables of a run that only calls chunk_text
PipeUnused ==
    /\ PipeIdle
    /\ text_chunks = 0
    /\ engine = "gtts"
    /\ output_formats = <<"play">>
    /\ args = PipeArgs(output_formats, engine)
    /\ language = args.language
    /\ output_filename = None

InitChunk ==
    /\ PipeUnused
    /\ LibIdle
    /\ cPc = "split"
    /\ text \in Texts
    /\ max_len \in 1..MaxMaxLen
    /\ parts = <<>> /\ p_i = 1
    /\ chunks = <<>> /\ buf = <<>> /\ cur_len = 0

\* parts = [...]; chunks = []; buf = []; cur_len = 0
ChunkSplit ==
    /\ cPc = "split"
    /\ parts' = SplitParts(text)
    /\ p_i' = 1
    /\ chunks' = <<>> /\ buf' = <<>> /\ cur_len' = 0
    /\ cPc' = "loop"
    /\ UNCHANGED <<text, max_len, pipeVars, libVars>>

\* ChunkHardSlice that does not flush the pending buffer first
ChunkHardSlice_noflush ==
    /\ cPc = "loop"
    /\ p_i <= Len(parts)
    /\ Len(parts[p_i]) > max_len
    /\ chunks' = chunks \o Slices(parts[p_i], max_len)
    /\ p_i' = p_i + 1
    /\ UNCHANGED <<cPc, text, max_len, parts, buf, cur_len, pipeVars, libVars>>

\* len(p) > max_len: flush the buffer, then the slices of p
ChunkHardSlice ==
    /\ cPc = "loop"
    /\ p_i <= Len(parts)
    /\ Len(parts[p_i]) > max_len
    /\ chunks' = (IF cur_len # 0 THEN Append(chunks, Join(buf)) ELSE chunks)
                    \o Slices(parts[p_i], max_len)
    /\ buf' = IF cur_len # 0 THEN <<>> ELSE buf
    /\ cur_len' = 0
    /\ p_i' = p_i + 1
    /\ UNCHANGED <<cPc, text, max_len, parts, pipeVars, libVars>>

\* add_len that forgets the joining space
add_len_nospace(p) == Len(p)

\* add_len = (1 if buf else 0) + len(p)
add_len(p) == (IF buf # <<>> THEN 1 ELSE 0) + Len(p)

\* cur_len + add_len <= max_len: buf.append(p)
ChunkPack ==
    /\ cPc = "loop"
    /\ p_i <= Len(parts)
    /\ Len(parts[p_i]) <= max_len
    /\ cur_len + add_len(parts[p_i]) <= max_len
    /\ buf' = Append(buf, parts[p_i])
    /\ cur_len' = cur_len + add_len(parts[p_i])
    /\ p_i' = p_i + 1
    /\ UNCHANGED <<cPc, text, max_len, parts, chunks, pipeVars, libVars>>

\* ChunkFlushStart that starts the new buffer without emitting the old one
ChunkFlushStart_noemit ==
    /\ cPc = "loop"
    /\ p_i <= Len(parts)
    /\ Len(parts[p_i]) <= max_len
    /\ cur_len + add_len(parts[p_i]) > max_len
    /\ buf' = <<parts[p_i]>>
    /\ cur_len' = Len(parts[p_i])
    /\ p_i' = p_i + 1
    /\ UNCHANGED <<cPc, text, max_len, parts, chunks, pipeVars, libVars>>

\* else: flush the buffer and start a new one with p
ChunkFlushStart ==
    /\ cPc = "loop"
    /\ p_i <= Len(parts)
    /\ Len(parts[p_i]) <= max_len
    /\ cur_len + add_len(parts[p_i]) > max_len
    /\ chunks' = IF buf # <<>> THEN Append(chunks, Join(buf)) ELSE chunks
    /\ buf' = <<parts[p_i]>>
    /\ cur_len' = Len(parts[p_i])
    /\ p_i' = p_i + 1
    /\ UNCHANGED <<cPc, text, max_len, parts, pipeVars, libVars>>

\* after the loop: flush the buffer, return chunks
ChunkReturn ==
    /\ cPc = "loop"
    /\ p_i > Len(parts)
    /\ chunks' = IF buf # <<>> THEN Append(chunks, Join(buf)) ELSE chunks
    /\ cPc' = "done"
    /\ UNCHANGED <<text, max_len, parts, p_i, buf, cur_len, pipeVars, libVars>>

chunk_text ==
    \/ ChunkSplit \/ ChunkHardSlice \/ ChunkPack \/ ChunkFlushStart
    \/ ChunkReturn

SpecChunk == InitChunk /\ [][chunk_text]_vars

\* chunk_text(t, L) as one function: the loop over parts from part i on
RECURSIVE PackFrom(_, _, _, _, _, _)
PackFrom(ps, i, ch, b, cl, L) ==
    IF i > Len(ps) THEN (IF b # <<>> THEN Append(ch, Join(b)) ELSE ch)
    ELSE LET p == ps[i]
             al == (IF b # <<>> THEN 1 ELSE 0) + Len(p)
         IN  IF Len(p) > L
             THEN PackFrom(ps, i + 1,
                           (IF cl # 0 THEN Append(ch, Join(b)) ELSE ch)
                              \o Slices(p, L),
                           IF cl # 0 THEN <<>> ELSE b, 0, L)
             ELSE IF cl + al <= L
             THEN PackFrom(ps, i + 1, ch, Append(b, p), cl + al, L)
             ELSE PackFrom(ps, i + 1,
                           IF b # <<>> THEN Append(ch, Join(b)) ELSE ch,
                           <<p>>, Len(p), L)

ChunkText(t, L) == PackFrom(SplitParts(t), 1, <<>>, <<>>, 0, L)

\* ====================================================== main, from the start

MAX_LEN == 200

\* s.split(",")
RECURSIVE SplitComma(_)
SplitComma(s) ==
    LET cuts == {i \in 1..Len(s) : s[i] = ","} IN
    IF cuts = {} THEN <<s>>
    ELSE LET i == CHOOSE c \in cuts : \A d \in cuts : c <= d IN
         <<SubSeq(s, 1, i - 1)>> \o SplitComma(SubSeq(s, i + 1, Len(s)))

\* [f.strip() for f in args.output.split(",")]
OutputNames == LET l == SplitComma(args.output) IN
               [k \in 1..Len(l) |-> Strip(l[k])]

\* the name is one of "play", "file", "stdout"
IsFormatName(n) == \E f \in Formats : FormatChars(f) = n
FormatOf(n) == CHOOSE f \in Formats : FormatChars(f) = n

\* l.append(f) if f not in l
AddNew(l, f) == IF \E k \in DOMAIN l : l[k] = f THEN l ELSE Append(l, f)

\* the loop over the names of --output, all of them valid
RECURSIVE NamedFormats(_, _)
NamedFormats(names, l) ==
    IF names = <<>> THEN l
    ELSE NamedFormats(Tail(names), AddNew(l, FormatOf(Head(names))))

\* ActiveFormats without the rule that --stdout with --file drops "file"
ActiveFormats_keepfile ==
    LET l0 == IF Truthy(args.output) THEN NamedFormats(OutputNames, <<>>)
              ELSE <<>>
        l1 == IF args.file # None THEN AddNew(l0, "file") ELSE l0
        l2 == IF args.play THEN AddNew(l1, "play") ELSE l1
        l3 == IF args.stdout THEN AddNew(l2, "stdout") ELSE l2
    IN  IF l3 = <<>> THEN <<"play">> ELSE l3

\* output_formats as lines 382-400 leave it
ActiveFormats ==
    LET l0 == IF Truthy(args.output) THEN NamedFormats(OutputNames, <<>>)
              ELSE <<>>
        l1 == IF args.file # None THEN AddNew(l0, "file") ELSE l0
        l2 == IF args.play THEN AddNew(l1, "play") ELSE l1
        l3 == IF args.stdout THEN AddNew(l2, "stdout") ELSE l2
        l4 == IF args.stdout /\ args.file # None /\ ~Truthy(args.output)
              THEN SelectSeq(l3, LAMBDA f : f # "file") ELSE l3
    IN  IF l4 = <<>> THEN <<"play">> ELSE l4

\* the text files main can be pointed at: path -> what f.read() gives
InputFiles ==
    (<<"in">> :> <<" ", "a", ".", " ", "b", "\n">>) @@ (<<"empty">> :> <<" ", "\n">>)

\* os.path.normpath(p), for a relative path without "." and ".." parts
NormPath(p) == IF Len(p) > 1 /\ p[Len(p)] = "/" THEN SubSeq(p, 1, Len(p) - 1)
               ELSE p

\* read_file(file_path) raises ValidationError
ReadFileRaises(file_path) ==
    LET fp == NormPath(file_path) IN
    \/ ~(IsDir(fp) \/ fp \in DOMAIN InputFiles)
    \/ fp \notin DOMAIN InputFiles
    \/ Strip(InputFiles[fp]) = <<>>

\* get_text(args) raises ValidationError
GetTextRaises ==
    IF Truthy(args.text_file) THEN ReadFileRaises(args.text_file)
    ELSE ~Truthy(args.text)

\* get_text(args)
get_text ==
    IF Truthy(args.text_file) THEN Strip(InputFiles[NormPath(args.text_file)])
    ELSE args.text

\* to_file(args, config, engine)
to_file ==
    LET extension == IF engine = "gtts" THEN "mp3" ELSE "wav"
        audio_dir == IF Truthy(args.audio_dir) THEN args.audio_dir
                     ELSE config.audio_directory
    IN  IF args.file = None THEN None
        ELSE IF args.file = <<>>
        THEN PathJoin(audio_dir, generate_timestamp_filename(<<>>, extension))
        ELSE IF args.file[Len(args.file)] = "/" \/ IsDir(args.file)
        THEN PathJoin(args.file,
                      generate_timestamp_filename(<<>>, extension))
        ELSE args.file

\* text[:50] + ("..." if len(text) > 50 else "")
preview ==
    IF Len(text) > 50 THEN SubSeq(text, 1, 50) \o <<"...">> ELSE text

\* the lines of the summary
Summary ==
    <<  <<"TTS CLI Tool">>, <<"========================================">>,
        <<"Text: ">> \o preview, <<"Engine: ", engine>>,
        <<"Language: ">> \o language, <<"Formats: ">> \o output_formats >>
    \o (IF Truthy(output_filename)
        THEN << <<"Output file: ">> \o output_filename >> ELSE <<>>)
    \o << <<>> >>

\* the variables of the workers, the file system and the fault history
workVars == <<fsVars, recVars, qVars, playVars, faultVars>>
\* the variables of chunk_text that main has no counterpart of
loopVars == <<cPc, max_len, parts, p_i, buf, cur_len>>

\* MainGetText that goes on with an empty text when get_text raises
MainGetText_continue ==
    /\ mainPc = "get_text"
    /\ text' = IF GetTextRaises THEN <<>> ELSE get_text
    /\ engine' = IF args.engine # NoEngine THEN args.engine
                 ELSE config.engine
    /\ language' = IF Truthy(args.language) THEN args.language
                   ELSE config.language
    /\ mainPc' = "formats"
    /\ UNCHANGED <<exit_code, text_chunks, output_formats, args,
                   output_filename, textVars, saved_files, as_i,
                   stdout_bytes, workVars, chunks, loopVars, libVars>>

\* text = get_text(args); engine = ...; language = ...; a ValidationError
\* makes main return 1
MainGetText ==
    /\ mainPc = "get_text"
    /\ IF GetTextRaises
       THEN /\ mainPc' = "returned"
            /\ exit_code' = 1
            /\ UNCHANGED <<text, engine, language>>
       ELSE /\ text' = get_text
            /\ engine' = IF args.engine # NoEngine THEN args.engine
                         ELSE config.engine
            /\ language' = IF Truthy(args.language) THEN args.language
                           ELSE config.language
            /\ mainPc' = "formats"
            /\ UNCHANGED exit_code
    /\ UNCHANGED <<text_chunks, output_formats, args, output_filename,
                   textVars, saved_files, as_i, stdout_bytes, workVars,
                   chunks, loopVars, libVars>>

\* "Determine output formats": a name that is no format raises
\* ValidationError, main returns 1
MainFormats ==
    /\ mainPc = "formats"
    /\ IF Truthy(args.output)
          /\ \E k \in DOMAIN OutputNames : ~IsFormatName(OutputNames[k])
       THEN /\ mainPc' = "returned"
            /\ exit_code' = 1
            /\ UNCHANGED output_formats
       ELSE /\ output_formats' = ActiveFormats
            /\ mainPc' = "output_filename"
            /\ UNCHANGED exit_code
    /\ UNCHANGED <<text_chunks, engine, argVars, textVars, saved_files, as_i,
                   stdout_bytes, workVars, chunkVars, libVars>>

\* "Determine output filename if saving to file"
MainOutputFilename ==
    /\ mainPc = "output_filename"
    /\ output_filename' =
          IF "file" \in FormatSet
          THEN IF args.file # None THEN to_file ELSE DefaultOutputFilename
          ELSE None
    /\ mainPc' = "summary"
    /\ UNCHANGED <<exit_code, text_chunks, engine, output_formats, args,
                   language, textVars, saved_files, as_i, stdout_bytes,
                   workVars, chunkVars, libVars>>

\* "Print summary"
MainSummary ==
    /\ mainPc = "summary"
    /\ stderr_text' = IF ~args.quiet /\ "stdout" \notin FormatSet
                      THEN stderr_text \o Summary ELSE stderr_text
    /\ mainPc' = "chunk"
    /\ UNCHANGED <<exit_code, text_chunks, engine, output_formats, argVars,
                   stdout_text, saved_files, as_i, stdout_bytes, workVars,
                   chunkVars, libVars>>

\* chunks = chunk_text(text, MAX_LEN); the chunk count is printed
MainChunk ==
    /\ mainPc = "chunk"
    /\ chunks' = ChunkText(text, MAX_LEN)
    /\ text_chunks' = Len(chunks')
    /\ stderr_text' =
          IF ~args.quiet /\ "stdout" \notin FormatSet
          THEN Append(stderr_text, <<"Chunks: ">> \o Digits(Len(chunks')))
          ELSE stderr_text
    /\ mainPc' = "start"
    /\ UNCHANGED <<exit_code, engine, output_formats, argVars, stdout_text,
                   saved_files, as_i, stdout_bytes, workVars, text,
                   loopVars, libVars>>

\* main before rec.start()
setup == MainGetText \/ MainFormats \/ MainOutputFilename \/ MainSummary
            \/ MainChunk

\* a text of MAX_LEN + 1 characters without a delimiter
LongText == [k \in 1..(MAX_LEN + 1) |-> "a"]

\* what argparse can hand to main: exactly one of text and --input
ArgVectors ==
    {a \in [text : {None, <<>>, <<" ">>, <<"a">>, LongText},
            text_file : {None, <<"in">>, <<"empty">>, <<"missing">>, <<"d">>},
            output : {None, <<>>, <<" ">> \o FormatChars("play") \o <<" ", ",">>
                                \o FormatChars("play"),
                      JoinComma(<<"file", "stdout">>),
                      <<"m", "p", "3">>,
                      FormatChars("play") \o <<",">>},
            file : {None, <<>>, <<"d", "/">>, <<"d">>, <<"o", ".", "x">>,
                    <<"o">>},
            play : BOOLEAN, stdout : BOOLEAN, quiet : BOOLEAN,
            engine : {NoEngine, "pyttsx3", "nosuch"},
            language : {<<"e", "n">>, <<"e", "n", "g">>},
            audio_dir : {None}] :
        /\ (a.text = None) # (a.text_file = None)
        /\ (a.engine = "nosuch" => a.language = <<"e", "n">>)
        /\ (a.language # <<"e", "n">> => a.engine = NoEngine)}

InitMain ==
    /\ mainPc = "get_text"
    /\ WorkersIdle
    /\ ChunkIdle
    /\ LibIdle
    /\ args \in ArgVectors
    /\ engine = NoEngine
    /\ language = None
    /\ output_formats = <<>>
    /\ output_filename = None
    /\ text_chunks = 0

NextMain == setup \/ Next

SpecMain == InitMain /\ [][NextMain]_vars

\* ================================================================== claims

\* the queue elements that are items, not None
ItemsOf(seq) == SelectSeq(seq, LAMBDA x : x # Sentinel)

\* C1: for N chunks rec_worker puts exactly the N items idx 1..N in order
\* and then one None, after which it puts nothing; a rec_worker that has
\* returned has put all N + 1 elements; a play_worker that has returned has
\* collected exactly N paths.
C1_NItemsThenOneSentinel ==
    /\ Len(enqueued) <= text_chunks + 1
    /\ \A k \in 1..Len(enqueued) :
          IF k <= text_chunks
          THEN enqueued[k] # Sentinel /\ enqueued[k].idx = k
          ELSE enqueued[k] = Sentinel
    /\ (recPc = "done" => Len(enqueued) = text_chunks + 1)
    /\ (playPc = "done" => Len(collected_paths) = text_chunks)

\* both workers have returned after a run over the largest chunk list
C1_Witness ==
    /\ text_chunks = MaxChunks
    /\ recPc = "done" /\ playPc = "done"
    /\ Len(enqueued) = MaxChunks + 1
    /\ Len(collected_paths) = MaxChunks

\* C2: play_worker dequeues in index order: the k-th collected path is the
\* temp path put with index k, whose file was written for chunk k, and the
\* k-th playback call is the one for index k.
C2_DequeuedInIndexOrder ==
    /\ Len(collected_paths) <= Len(ItemsOf(enqueued))
    /\ \A k \in 1..Len(collected_paths) :
          /\ enqueued[k].idx = k
          /\ collected_paths[k] = enqueued[k].tmp_path
          /\ (mainPc \in {"join_rec", "join_play"}
                 => fs_tmp[collected_paths[k]] \in {EmptyBytes, k})
    /\ Len(played) <= Len(collected_paths)
    /\ \A k \in 1..Len(played) : played[k] = k

\* the consumer ran while the producer was still producing, and every chunk
\* was played
C2_Witness ==
    /\ text_chunks = MaxChunks
    /\ playPc = "done"
    /\ Len(collected_paths) = MaxChunks
    /\ Len(played) = MaxChunks
    /\ collected_paths[1] # collected_paths[MaxChunks]

\* C3: a chunk k whose engine call raised is put with index k and empty
\* bytes as soon as rec_worker has moved past it, and a rec_worker that
\* returned has put every chunk and the Sentinel all the same.
C3_EngineFailureYieldsEmptyItem ==
    \A k \in tts_failed :
        /\ k <= rec_i
        /\ (k = rec_i => recPc \in {"mkstemp", "write", "put", "crashed"}
                         /\ rec_audio = EmptyBytes)
        /\ (k < rec_i =>
               /\ Len(enqueued) >= k
               /\ enqueued[k] = QueueItem(k, enqueued[k].tmp_path, EmptyBytes))
        /\ (recPc = "done" =>
               /\ Len(enqueued) = text_chunks + 1
               /\ \A j \in (k + 1)..text_chunks : enqueued[j].idx = j
               /\ enqueued[text_chunks + 1] = Sentinel)

\* the engine raised for chunk 1, chunk 2 was generated and put after it, and
\* rec_worker returned
C3_Witness ==
    /\ text_chunks >= 2
    /\ tts_failed = {1}
    /\ recPc = "done"
    /\ enqueued[1].audio_bytes = EmptyBytes
    /\ enqueued[2].audio_bytes = 2

\* C4: a main that has started the pipeline and returned has returned 0: no
\* failure of a chunk in the engine, the temp-file write or playback aborts
\* the run.
C4_NoChunkErrorAbortsRun ==
    mainPc = "returned" => exit_code = 0

\* C5: when main has returned, by return 0 or by an error exit, no temp
\* file is left: each was renamed or deleted (a deletion that failed, which
\* is swallowed as best effort, left aside).
C5_NoTempFileLeft ==
    mainPc = "returned" =>
        \A p \in TmpNames : fs_tmp[p] = Absent \/ p \in unlink_failed

\* chunks whose audio was generated and that were not dequeued yet
InFlight ==
    Len(ItemsOf(q)) + (IF recPc \in {"mkstemp", "write", "put"} THEN 1 ELSE 0)

\* C6: the queue never holds more than 2 elements; rec_worker at a put is
\* blocked exactly while it holds 2, play_worker at the get exactly while it
\* is empty; at most 3 generated chunks are not yet dequeued.
C6_QueueBounded ==
    /\ Len(q) <= 2
    /\ (recPc \in {"put", "sentinel"} => (~ENABLED rec_worker <=> Len(q) = 2))
    /\ (playPc = "get" => (~ENABLED play_worker <=> q = <<>>))
    /\ InFlight <= 3

\* rec_worker is blocked with a third generated chunk in hand
C6_Witness ==
    /\ recPc = "put"
    /\ Len(q) = 2
    /\ ~ENABLED rec_worker
    /\ InFlight = 3

\* C7: with play requested, a chunk whose playback raised has its path
\* collected already, and a play_worker that returned has collected and
\* tried to play every chunk 1..N in order.
C7_PlaybackFailureDoesNotStop ==
    "play" \in FormatSet =>
        /\ \A k \in play_failed :
              /\ Len(collected_paths) >= k
              /\ collected_paths[k] = enqueued[k].tmp_path
              /\ Len(played) >= k
        /\ (playPc = "done" =>
               /\ Len(collected_paths) = text_chunks
               /\ played = [k \in 1..text_chunks |-> k]
               /\ q = <<>>)

\* playback of chunk 1 raised, and the later chunks were collected and played
C7_Witness ==
    /\ "play" \in FormatSet
    /\ text_chunks = MaxChunks
    /\ 1 \in play_failed
    /\ playPc = "done"
    /\ Len(played) = MaxChunks

\* positions of main after both joins
AssemblerPcs == {"file", "stdout", "cleanup", "return", "returned"}

\* C8: main is at an assembler step only when both workers have ended, and
\* no assembler step is enabled together with a worker step.
C8_AssemblyAfterJoin ==
    /\ (mainPc \in AssemblerPcs =>
           recPc \in {"done", "crashed"} /\ playPc = "done")
    /\ ~(ENABLED assembler /\ ENABLED (rec_worker \/ play_worker))

\* the assembler is in the middle of its work on the collected paths
C8_Witness ==
    /\ mainPc \in {"file", "cleanup"}
    /\ as_i > 1
    /\ ENABLED assembler

\* ---- chunk_text

NotSpace(c) == ~IsSpace(c)
\* all whitespace removed
RemoveWS(s) == SelectSeq(s, NotSpace)

\* the chunks one after the other
RECURSIVE Flatten(_)
Flatten(cs) == IF cs = <<>> THEN <<>> ELSE Head(cs) \o Flatten(Tail(cs))

\* C9: every chunk chunk_text has produced is at most max_len long.
C9_ChunkLengthBounded ==
    \A k \in 1..Len(chunks) : Len(chunks[k]) <= max_len

\* a result with a packed chunk of two pieces that is exactly max_len long
\* with its joining space, and with hard slices of a longer piece
C9_Witness ==
    /\ cPc = "done"
    /\ \E k \in 1..Len(chunks) : \E j \in 1..(Len(parts) - 1) :
          /\ chunks[k] = parts[j] \o <<" ">> \o parts[j + 1]
          /\ Len(chunks[k]) = max_len
    /\ \E j \in 1..Len(parts) : Len(parts[j]) > max_len

\* C10: the chunks of the returned list, concatenated in order and with all
\* whitespace removed, are the text with all whitespace removed.
C10_NonWhitespacePreserved ==
    cPc = "done" => RemoveWS(Flatten(chunks)) = RemoveWS(text)

\* a text with whitespace that is dropped, a packed buffer and a piece that
\* is hard-sliced
C10_Witness ==
    /\ cPc = "done"
    /\ Len(RemoveWS(text)) < Len(text)
    /\ Len(RemoveWS(text)) >= 3
    /\ Len(chunks) >= 3
    /\ \E j \in 2..Len(parts) : Len(parts[j]) > max_len

\* the text holds none of the delimiters
NoDelimiter(t) == \A i \in 1..Len(t) : ~IsDelim(t[i])

\* C11 as stated: a text no longer than max_len and without a delimiter
\* comes back as the one-element list [T].
C11_ShortTextIsOneChunk ==
    (cPc = "done" /\ Len(text) <= max_len /\ NoDelimiter(text))
        => chunks = <<text>>

\* C11 amended: such a text comes back as [T.strip()] when it holds a
\* non-whitespace character, hence as [T] when it is non-empty and has no
\* leading or trailing whitespace, and as [] when it is empty or whitespace
\* only.
C11_ShortTextIsOneStrippedChunk ==
    (cPc = "done" /\ Len(text) <= max_len /\ NoDelimiter(text))
        => /\ chunks = IF Strip(text) = <<>> THEN <<>> ELSE <<Strip(text)>>
           /\ ((text # <<>> /\ Strip(text) = text) => chunks = <<text>>)

\* a short text without delimiter whose outer whitespace is dropped
C11_Witness ==
    /\ cPc = "done"
    /\ Len(text) <= max_len
    /\ NoDelimiter(text)
    /\ Strip(text) # text
    /\ Len(Strip(text)) >= 2
    /\ chunks = <<Strip(text)>>

CeilDiv(n, d) == (n + d - 1) \div d
\* p[(k-1)*L : k*L]
SliceAt(p, L, k) ==
    SubSeq(p, (k - 1) * L + 1, IF k * L < Len(p) THEN k * L ELSE Len(p))

\* C12: the step that meets a piece of length n > max_len appends, after the
\* pending buffer as a chunk of its own if there is one, the ceil(n/max_len)
\* successive max_len-slices of the piece, all max_len long but possibly
\* the last.
C12_HardSliceStep ==
    [][(cPc = "loop" /\ p_i <= Len(parts) /\ Len(parts[p_i]) > max_len) =>
        LET p == parts[p_i]
            m == CeilDiv(Len(p), max_len)
            pending == IF buf # <<>> THEN <<Join(buf)>> ELSE <<>>
        IN  /\ chunks' = chunks \o pending
                            \o [k \in 1..m |-> SliceAt(p, max_len, k)]
            /\ \A k \in 1..(m - 1) :
                  Len(chunks'[Len(chunks) + Len(pending) + k]) = max_len
            /\ Len(chunks'[Len(chunks')]) = Len(p) - (m - 1) * max_len
      ]_vars

\* a pending buffer, then a piece sliced in three with a short last slice
C12_Witness ==
    /\ cPc = "done"
    /\ Len(parts) = 2
    /\ Len(parts[1]) <= max_len
    /\ Len(parts[2]) > 2 * max_len
    /\ Len(parts[2]) % max_len # 0
    /\ Len(chunks) = 4
    /\ chunks[1] = parts[1]
    /\ Len(chunks[2]) = max_len /\ Len(chunks[3]) = max_len
    /\ Len(chunks[4]) < max_len

\* --file names a directory: it ends in os.sep or is an existing directory
DirectoryGiven ==
    /\ args.file # None /\ args.file # <<>>
    /\ (args.file[Len(args.file)] = "/" \/ IsDir(args.file))

\* path p lies in directory d and its name starts with the tokens pre
NamedIn(p, d, pre) ==
    LET start == PathJoin(d, pre) IN
    /\ Len(p) > Len(start)
    /\ SubSeq(p, 1, Len(start)) = start
    /\ \A k \in (Len(start) + 1)..Len(p) : p[k] # "/"

\* C13: with format "file" and --file naming a directory, a run over N
\* chunks that returned 0 has left exactly N files, the i-th of them in that
\* directory under a name starting with part_<i as 3 digits>_, and no temp
\* file remains.
C13_DirectoryModeNames ==
    (mainPc = "returned" /\ exit_code = 0 /\ "file" \in FormatSet
        /\ DirectoryGiven)
    => /\ Len(saved_files) = text_chunks
       /\ DOMAIN fs_final = {saved_files[i] : i \in 1..Len(saved_files)}
       /\ \A i \in 1..Len(saved_files) :
             /\ NamedIn(saved_files[i], args.file,
                        <<"part", "_">> \o Pad3(i) \o <<"_">>)
             /\ fs_final[saved_files[i]] # Absent
       /\ \A p \in TmpNames : fs_tmp[p] = Absent

\* --file names a file: given, not empty, not a directory
FileGiven == args.file # None /\ args.file # <<>> /\ ~DirectoryGiven

\* f is written base.e: e is a non-empty run without dot or separator and
\* base ends in a name character
IsBaseDotExt(f, k) ==
    /\ 1 < k /\ k < Len(f)
    /\ f[k] = "."
    /\ f[k - 1] \notin {".", "/"}
    /\ \A j \in (k + 1)..Len(f) : f[j] \notin {".", "/"}

\* base_<i as 3 digits>.ext for the filename f, the generation extension
\* standing in when f has none
Numbered(f, i) ==
    LET i3 == IF i < 10 THEN <<"0", "0">> \o Digits(i)
              ELSE IF i < 100 THEN <<"0">> \o Digits(i) ELSE Digits(i)
    IN  IF \E k \in 1..Len(f) : IsBaseDotExt(f, k)
        THEN LET k == CHOOSE j \in 1..Len(f) : IsBaseDotExt(f, j) IN
             SubSeq(f, 1, k - 1) \o <<"_">> \o i3 \o SubSeq(f, k, Len(f))
        ELSE f \o <<"_">> \o i3
               \o <<".", IF engine = "gtts" THEN "mp3" ELSE "wav">>

C15_StdoutOnlyWav ==
    (mainPc = "returned" /\ FormatSet = {"stdout"} /\ engine # "gtts"
        /\ unlink_failed = {})
    => /\ Len(stdout_bytes) = text_chunks
       /\ \A k \in 1..Len(stdout_bytes) : stdout_bytes[k] = k
       /\ played = <<>>
       /\ fs_final = NoFiles
       /\ \A p \in TmpNames : fs_tmp[p] = Absent

\* main is past the rename loop and its print loop
FileStageDone ==
    "file" \in FormatSet /\ mainPc \in {"stdout", "cleanup", "return", "returned"}

\* main is past the write of the MP3 chunks
Mp3StageDone ==
    /\ "stdout" \in FormatSet /\ engine = "gtts"
    /\ mainPc \in {"cleanup", "return", "returned"}

C17_TempFilesDeletedWithoutFile ==
    (mainPc = "returned" /\ output_formats # <<>> /\ "file" \notin FormatSet)
    => /\ exit_code = 0
       /\ \A k \in 1..Len(collected_paths) :
             \/ fs_tmp[collected_paths[k]] = Absent
             \/ collected_paths[k] \in unlink_failed

\* --output is given with a value that is not empty
OutputGiven == args.output # None /\ args.output # <<>>

\* the formats named in --output
NamedSet ==
    IF OutputGiven
    THEN {f \in Formats :
             \E k \in DOMAIN OutputNames : OutputNames[k] = FormatChars(f)}
    ELSE {}

\* where format f stands: by its first naming in --output, then "file",
\* "play", "stdout" for the ones the flags add
Rank(f) ==
    IF f \in NamedSet
    THEN CHOOSE k \in DOMAIN OutputNames :
            /\ OutputNames[k] = FormatChars(f)
            /\ \A j \in 1..(k - 1) : OutputNames[j] # FormatChars(f)
    ELSE Len(OutputNames)
            + (CASE f = "file" -> 1 [] f = "play" -> 2 [] f = "stdout" -> 3)

\* the set of active formats the rules give
ExpectedFormats ==
    LET flags == NamedSet
                   \cup (IF args.file # None THEN {"file"} ELSE {})
                   \cup (IF args.play THEN {"play"} ELSE {})
                   \cup (IF args.stdout THEN {"stdout"} ELSE {})
        kept == IF args.stdout /\ args.file # None /\ ~OutputGiven
                THEN flags \ {"file"} ELSE flags
    IN  IF kept = {} THEN {"play"} ELSE kept

InvalidOutputName ==
    /\ OutputGiven
    /\ \E k \in DOMAIN OutputNames :
          OutputNames[k] \notin {<<"p", "l", "a", "y">>, <<"f", "i", "l", "e">>,
                                 <<"s", "t", "d", "o", "u", "t">>}

\* neither an input file nor a text that is not empty
MissingText ==
    args.text_file \in {None, <<>>} /\ args.text \in {None, <<>>}

\* the input file is missing, is no regular file, or holds only whitespace
BadInputFile ==
    /\ args.text_file \notin {None, <<>>}
    /\ \/ args.text_file \notin DOMAIN InputFiles
       \/ \A k \in DOMAIN InputFiles[args.text_file] :
             InputFiles[args.text_file][k] \in {" ", "\n"}

InvalidEngineOrLanguage ==
    \/ (IF args.engine # "" THEN args.engine ELSE "gtts")
          \notin {"gtts", "pyttsx3"}
    \/ Len(args.language) # 2

\* C20: a run whose engine or language is invalid never returns 0, never
\* creates an output file and never writes audio to stdout.
C20_InvalidEngineOrLanguageAborts ==
    InvalidEngineOrLanguage
    => /\ mainPc = "returned" => exit_code = 1
       /\ fs_final = NoFiles
       /\ stdout_bytes = <<>>

\* the str is empty or holds nothing but whitespace
Blank(t) == \A k \in DOMAIN t : t[k] \in {" ", "\n"}

\* C21: a positional text that is empty or whitespace-only is rejected: main
\* leaves get_text only to return 1, and neither worker is ever started.
C21_BlankTextRejected ==
    (args.text_file = None /\ args.text # None /\ Blank(args.text))
    => /\ mainPc \in {"get_text", "returned"}
       /\ mainPc = "returned" => exit_code = 1
       /\ recPc = "idle" /\ playPc = "idle"

\* ============================================================== validators
\* A Python value: a str carries its characters, any other type nothing.
Str(v) == [type |-> "str", val |-> v]
NotStr == [type |-> "int", val |-> <<>>]
\* how a call ends
Returned(v) == [kind |-> "return", value |-> v]
Raised(e) == [kind |-> "raise", exc |-> e]

\* len(cleaned_text) > 5000
TEXT_MAX == 5000

\* validate_text without the test for an empty cleaned text
validate_text_noempty(x) ==
    IF x.type # "str" THEN Raised("ValidationError")
    ELSE LET cleaned_text == Strip(x.val) IN
         IF Len(cleaned_text) > TEXT_MAX THEN Raised("ValidationError")
         ELSE Returned(cleaned_text)

\* validate_text(text)
validate_text(x) ==
    IF x.type # "str" THEN Raised("ValidationError")
    ELSE LET cleaned_text == Strip(x.val) IN
         IF cleaned_text = <<>> THEN Raised("ValidationError")
         ELSE IF Len(cleaned_text) > TEXT_MAX THEN Raised("ValidationError")
         ELSE Returned(cleaned_text)

\* the modules engines/<name>.py of the package
EngineModules == {"gtts", "pyttsx3", "pipertts", "coquitts", "silerotts"}

\* is_engine_available(name): the module file exists, imports and says it
\* is available; avail is the set of modules whose dependencies are there
is_engine_available(name, avail) == name \in EngineModules /\ name \in avail

\* validate_engine that raises ValidationError whenever the engine is not
\* available
validate_engine_oneerror(x, avail) ==
    IF x.type # "str" \/ x.val = "" THEN Raised("ValidationError")
    ELSE IF ~is_engine_available(x.val, avail)
    THEN Raised("ValidationError")
    ELSE Returned(x.val)

\* validate_engine(engine), with the outcome it ends in
ValidateEngine(x, avail) ==
    IF x.type # "str" \/ x.val = "" THEN Raised("ValidationError")
    ELSE IF ~is_engine_available(x.val, avail)
    THEN IF x.val \notin EngineModules THEN Raised("ValidationError")
         ELSE Raised("EngineNotAvailableError")
    ELSE Returned(x.val)

\* the strs given to validate_text: short ones, and ones about TEXT_MAX long
ValTexts ==
    UNION {[1..n -> {"a", " ", "\n"}] : n \in 0..MaxTextLen}
    \cup {[k \in 1..n |-> "a"] : n \in {TEXT_MAX, TEXT_MAX + 1}}
    \cup {<<" ">> \o [k \in 1..n |-> "a"] \o <<"\n">> :
             n \in {TEXT_MAX, TEXT_MAX + 1}}

\* the texts cut into chunks of MAX_LEN: one short, one a single long word,
\* one with MAX_LEN spaces between two words
ChunkedTexts ==
    {<<"a", ".", " ", "b">>, LongText,
     [k \in 1..(2 * MAX_LEN + 1) |->
         IF k <= MAX_LEN THEN "a" ELSE IF k <= 2 * MAX_LEN THEN " " ELSE "b"]}

\* the names given to validate_engine
EngineNames == EngineModules \cup {"", "nosuch", "GTTS"}

\* a call of function fn with argument a where the engines of avail have
\* their dependencies installed
Call(fn, a, avail) == [fn |-> fn, arg |-> a, avail |-> avail]

InitValidate ==
    /\ PipeUnused
    /\ ChunkIdle
    /\ ConcatIdle
    /\ v_out = NoValue
    /\ \/ /\ vPc = "validate_text"
          /\ v_in \in {Call(vPc, Str(t), {}) : t \in ValTexts}
                   \cup {Call(vPc, NotStr, {})}
       \/ /\ vPc = "validate_engine"
          /\ v_in \in {Call(vPc, a, s) :
                          a \in {Str(n) : n \in EngineNames} \cup {NotStr},
                          s \in SUBSET EngineModules}
       \/ /\ vPc = "chunks"
          /\ v_in \in {Call(vPc, Str(t), {}) : t \in ChunkedTexts}

\* result = validate_text(text)
ValidateTextCall ==
    /\ vPc = "validate_text"
    /\ v_out' = validate_text(v_in.arg)
    /\ vPc' = "done"
    /\ UNCHANGED <<v_in, concatVars, pipeVars, chunkVars>>

\* result = validate_engine(engine)
ValidateEngineCall ==
    /\ vPc = "validate_engine"
    /\ v_out' = ValidateEngine(v_in.arg, v_in.avail)
    /\ vPc' = "done"
    /\ UNCHANGED <<v_in, concatVars, pipeVars, chunkVars>>

\* chunks = chunk_text(text, MAX_LEN), then every chunk through the
\* validate_text of text_to_speech_bytes, as rec_worker's loop does
ChunksValidate ==
    /\ vPc = "chunks"
    /\ chunks' = ChunkText(v_in.arg.val, MAX_LEN)
    /\ v_out' = Returned([k \in 1..Len(chunks') |->
                             validate_text(Str(chunks'[k]))])
    /\ vPc' = "done"
    /\ UNCHANGED <<v_in, concatVars, pipeVars, cPc, text, max_len, parts,
                   p_i, buf, cur_len>>

NextValidate == ValidateTextCall \/ ValidateEngineCall \/ ChunksValidate

SpecValidate == InitValidate /\ [][NextValidate]_vars

\* the call ended by returning v / by raising e
IsReturn(r, v) == r.kind = "return" /\ r.value = v
IsRaise(r, e) == r.kind = "raise" /\ r.exc = e

\* C22: validate_engine(name) returns name unchanged when the engine is
\* available; raises ValidationError when name is no non-empty str or no
\* engine module of that name exists; raises EngineNotAvailableError when
\* the module exists but its dependencies are not there.
C22_ValidateEngineOutcomes ==
    (vPc = "done" /\ v_in.fn = "validate_engine")
    => LET x == v_in.arg
           named == x.type = "str" /\ x.val # ""
           exists == named /\ x.val \in {"gtts", "pyttsx3", "pipertts",
                                         "coquitts", "silerotts"}
           available == exists /\ x.val \in v_in.avail
       IN  /\ available => IsReturn(v_out, x.val)
           /\ (~named \/ ~exists) => IsRaise(v_out, "ValidationError")
           /\ (exists /\ ~available)
                 => IsRaise(v_out, "EngineNotAvailableError")

\* pipertts asked for with only gtts installed
C22_Witness ==
    /\ vPc = "done" /\ v_in.fn = "validate_engine"
    /\ v_in.arg = [type |-> "str", val |-> "pipertts"]
    /\ v_in.avail = {"gtts"}
    /\ v_out.kind = "raise" /\ v_out.exc = "EngineNotAvailableError"

\* ======================================================== concat_wav_files
\* The writer wout keeps its (nchannels, sampwidth, framerate) in
\* out_stream.params; out_stream.written says the header has reached the
\* stream, out_stream.frames is the data written after it.

\* the files the paths can name: three of the same parameters (one of them
\* without frames), one of other parameters, one that is no WAV file
WavFiles ==
    {Wav(<<1, 1, 8>>, <<1, 2>>), Wav(<<1, 1, 8>>, <<3>>),
     Wav(<<1, 1, 8>>, <<>>), Wav(<<2, 1, 16>>, <<4, 5>>), NotWav}

InitConcat ==
    /\ PipeUnused
    /\ ChunkIdle
    /\ ValIdle
    /\ wPc = "start"
    /\ in_paths \in UNION {[1..n -> WavFiles] : n \in 0..MaxPaths}
    /\ w_i = 1 /\ first = TRUE /\ wout_open = FALSE /\ win_open = {}
    /\ out_stream = NoOutput /\ w_raised = FALSE /\ warned = {}

\* what concat_wav_files leaves alone
restVars == <<valVars, pipeVars, chunkVars>>

\* if not in_paths: return
ConcatReturnEmpty ==
    /\ wPc = "start"
    /\ in_paths = <<>>
    /\ wPc' = "returned"
    /\ UNCHANGED <<in_paths, w_i, first, wout_open, win_open, out_stream,
                   w_raised, warned, restVars>>

\* wout = wave.open(out_stream, "wb"); first = True
ConcatOpenOut ==
    /\ wPc = "start"
    /\ in_paths # <<>>
    /\ wout_open' = TRUE
    /\ first' = TRUE
    /\ w_i' = 1
    /\ wPc' = "loop"
    /\ UNCHANGED <<in_paths, win_open, out_stream, w_raised, warned,
                   restVars>>

\* ConcatCloseIn without win.close()
ConcatCloseIn_leak ==
    /\ wPc = "close_in"
    /\ IF w_raised THEN wPc' = "close_out" /\ UNCHANGED w_i
       ELSE wPc' = "loop" /\ w_i' = w_i + 1
    /\ UNCHANGED <<in_paths, first, wout_open, win_open, out_stream,
                   w_raised, warned, restVars>>

\* win = wave.open(p, "rb"): a file that is no WAV file makes it raise,
\* wave closing the file it had opened
ConcatOpenIn ==
    /\ wPc = "loop"
    /\ w_i <= Len(in_paths)
    /\ IF in_paths[w_i].valid
       THEN /\ win_open' = win_open \cup {w_i}
            /\ wPc' = "copy"
            /\ UNCHANGED w_raised
       ELSE /\ w_raised' = TRUE
            /\ wPc' = "close_out"
            /\ UNCHANGED win_open
    /\ UNCHANGED <<in_paths, w_i, first, wout_open, out_stream, warned,
                   restVars>>

\* ConcatCopy that takes the parameters of every input in turn
ConcatCopy_lastparams ==
    /\ wPc = "copy"
    /\ LET win == in_paths[w_i] IN
       \E ok \in BOOLEAN :
          /\ first' = FALSE
          /\ warned' = warned
          /\ out_stream' =
                [written |-> out_stream.written \/ ok,
                 params |-> win.params,
                 frames |-> IF ok THEN out_stream.frames \o win.frames
                            ELSE out_stream.frames]
          /\ w_raised' = ~ok
    /\ wPc' = "close_in"
    /\ UNCHANGED <<in_paths, w_i, wout_open, win_open, restVars>>

\* the body of the inner try: the first input gives wout its parameters, a
\* later one of other parameters is warned about; then readframes, which can
\* raise, and writeframes
ConcatCopy ==
    /\ wPc = "copy"
    /\ LET win == in_paths[w_i] IN
       \E ok \in BOOLEAN :
          /\ first' = FALSE
          /\ warned' = IF ~first /\ win.params # out_stream.params
                       THEN warned \cup {w_i} ELSE warned
          /\ out_stream' =
                [written |-> out_stream.written \/ ok,
                 params |-> IF first THEN win.params ELSE out_stream.params,
                 frames |-> IF ok THEN out_stream.frames \o win.frames
                            ELSE out_stream.frames]
          /\ w_raised' = ~ok
    /\ wPc' = "close_in"
    /\ UNCHANGED <<in_paths, w_i, wout_open, win_open, restVars>>

\* finally: win.close(); then the next iteration, or the exception goes on
ConcatCloseIn ==
    /\ wPc = "close_in"
    /\ win_open' = win_open \ {w_i}
    /\ IF w_raised THEN wPc' = "close_out" /\ UNCHANGED w_i
       ELSE wPc' = "loop" /\ w_i' = w_i + 1
    /\ UNCHANGED <<in_paths, first, wout_open, out_stream, w_raised, warned,
                   restVars>>

\* the for loop is over
ConcatLoopEnd ==
    /\ wPc = "loop"
    /\ w_i > Len(in_paths)
    /\ wPc' = "close_out"
    /\ UNCHANGED <<in_paths, w_i, first, wout_open, win_open, out_stream,
                   w_raised, warned, restVars>>

\* finally: wout.close(): writes the header if it is not written yet, which
\* raises wave.Error when wout has no parameters; the writer is closed
\* either way
ConcatCloseOut ==
    /\ wPc = "close_out"
    /\ wout_open' = FALSE
    /\ IF out_stream.params = NoParams
       THEN /\ w_raised' = TRUE
            /\ UNCHANGED out_stream
       ELSE /\ out_stream' = [out_stream EXCEPT !.written = TRUE]
            /\ UNCHANGED w_raised
    /\ wPc' = IF w_raised' THEN "raised" ELSE "returned"
    /\ UNCHANGED <<in_paths, w_i, first, win_open, warned, restVars>>

concat_wav_files ==
    \/ ConcatReturnEmpty \/ ConcatOpenOut \/ ConcatOpenIn \/ ConcatCopy
    \/ ConcatCloseIn \/ ConcatLoopEnd \/ ConcatCloseOut

SpecConcat == InitConcat /\ [][concat_wav_files]_vars

\* the frame data of inputs 1..k one after the other
RECURSIVE FramesUpTo(_)
FramesUpTo(k) ==
    IF k = 0 THEN <<>> ELSE FramesUpTo(k - 1) \o in_paths[k].frames

\* getnframes() of data d under parameters ps
NFrames(ps, d) == Len(d) \div (ps[1] * ps[2])

\* the frame counts of inputs 1..k added up
RECURSIVE FrameSum(_)
FrameSum(k) ==
    IF k = 0 THEN 0
    ELSE FrameSum(k - 1) + NFrames(in_paths[k].params, in_paths[k].frames)

\* C23: a concat_wav_files that returned has written, for an empty path
\* list, nothing; otherwise a WAV with the parameters of the first input and
\* the frame data of all inputs in path order, inputs of other parameters
\* included (each of them warned about), so that with identical parameters
\* the output's frame count is the sum of the inputs' frame counts.
C23_ConcatResult ==
    wPc = "returned"
    => IF in_paths = <<>> THEN out_stream = NoOutput /\ ~wout_open
       ELSE /\ out_stream.written
            /\ out_stream.params = in_paths[1].params
            /\ out_stream.frames = FramesUpTo(Len(in_paths))
            /\ warned = {k \in 2..Len(in_paths) :
                            in_paths[k].params # in_paths[1].params}
            /\ (warned = {}
                  => NFrames(out_stream.params, out_stream.frames)
                        = FrameSum(Len(in_paths)))

\* three inputs, the second of other parameters than the first, were
\* concatenated
C23_Witness ==
    /\ wPc = "returned"
    /\ Len(in_paths) = 3
    /\ in_paths[1].params = <<1, 1, 8>> /\ in_paths[2].params = <<2, 1, 16>>
    /\ in_paths[3].params = <<1, 1, 8>>
    /\ out_stream = [written |-> TRUE, params |-> <<1, 1, 8>>,
                     frames |-> <<1, 2, 4, 5, 3>>]
    /\ warned = {2}

\* position k of t holds no whitespace
Inked(t, k) == t[k] \notin {" ", "\n"}

\* the number of whitespace characters t starts with / ends with
Lead(t) ==
    IF \A k \in 1..Len(t) : ~Inked(t, k) THEN Len(t)
    ELSE CHOOSE n \in 0..Len(t) :
            Inked(t, n + 1) /\ \A j \in 1..n : ~Inked(t, j)
Trail(t) ==
    IF \A k \in 1..Len(t) : ~Inked(t, k) THEN 0
    ELSE CHOOSE n \in 0..Len(t) :
            /\ Inked(t, Len(t) - n)
            /\ \A j \in (Len(t) - n + 1)..Len(t) : ~Inked(t, j)

\* the length of t without its leading and trailing whitespace
StrippedLen(t) == Len(t) - Lead(t) - Trail(t)

\* r is t without its leading and trailing whitespace
IsStripped(t, r) ==
    /\ Len(r) = StrippedLen(t)
    /\ \A k \in 1..Len(r) : r[k] = t[Lead(t) + k]

\* C24: validate_text(text) returns text without its leading and trailing
\* whitespace when text is a str whose stripped form has 1 to 5000
\* characters, and raises ValidationError in every other case; it never
\* returns the empty str.
C24_ValidateTextOutcomes ==
    (vPc = "done" /\ v_in.fn = "validate_text")
    => LET x == v_in.arg IN
       IF x.type = "str" /\ StrippedLen(x.val) >= 1
             /\ StrippedLen(x.val) <= 5000
       THEN /\ v_out.kind = "return"
            /\ IsStripped(x.val, v_out.value)
            /\ v_out.value # <<>>
       ELSE IsRaise(v_out, "ValidationError")

\* a text of 5002 characters, 5000 without the whitespace at its ends, was
\* returned stripped
C24_Witness ==
    /\ vPc = "done" /\ v_in.fn = "validate_text"
    /\ Len(v_in.arg.val) = 5002
    /\ v_out.kind = "return"
    /\ Len(v_out.value) = 5000

\* a sentence of 80 characters
Sentence80 == [k \in 1..80 |-> IF k < 80 THEN "a" ELSE "."]
\* 'Hello. World! Test?'
HelloWorldTest ==
    <<"H", "e", "l", "l", "o", ".", " ", "W", "o", "r", "l", "d", "!", " ",
      "T", "e", "s", "t", "?">>

\* the two examples: three sentences of 80 characters with max_len 100 give
\* three chunks, 'Hello. World! Test?' with max_len 100 gives itself
C25_Examples ==
    /\ ChunkText(Sentence80 \o <<" ">> \o Sentence80 \o <<" ">> \o Sentence80,
                 100)
          = <<Sentence80, Sentence80, Sentence80>>
    /\ ChunkText(HelloWorldTest, 100) = <<HelloWorldTest>>

\* one loop step on a piece p of at most max_len characters: p joins the
\* buffer iff cur_len + (1 if the buffer is not empty) + len(p) <= max_len;
\* otherwise the buffer is emitted as a chunk, p starts the new buffer, and
\* the emitted chunk's length + 1 + len(p) exceeds max_len
C25_PackStep ==
    (cPc = "loop" /\ p_i <= Len(parts) /\ Len(parts[p_i]) <= max_len)
    => LET p == parts[p_i]
           fits == cur_len + (IF buf # <<>> THEN 1 ELSE 0) + Len(p) <= max_len
       IN  IF fits
           THEN buf' = Append(buf, p) /\ chunks' = chunks
           ELSE /\ buf' = <<p>>
                /\ chunks' = IF buf # <<>> THEN Append(chunks, Join(buf))
                             ELSE chunks
                /\ buf # <<>> => Len(Join(buf)) + 1 + Len(p) > max_len

\* C25: chunk_text packs greedily: cur_len is the length the buffer has once
\* joined, every loop step on a piece that is not too long is a greedy
\* packing step, and the two examples come out as stated.
C25_GreedyPacking ==
    /\ C25_Examples
    /\ [](cur_len = Len(Join(buf)))
    /\ [][C25_PackStep]_vars

\* "a\nb\na" with max_len 3: "a b" was packed, "a" did not fit any more
C25_Witness ==
    /\ cPc = "done" /\ max_len = 3
    /\ parts = << <<"a">>, <<"b">>, <<"a">> >>
    /\ chunks = << <<"a", " ", "b">>, <<"a">> >>

\* the temp paths of the items put on the queue so far
EnqueuedPaths ==
    {enqueued[k].tmp_path :
        k \in {j \in 1..Len(enqueued) : enqueued[j] # Sentinel}}

\* both worker threads have ended
WorkersEnded == recPc \in {"done", "crashed"} /\ playPc = "done"

\* a step that changes a temp file is rec_worker creating or writing a file
\* it has not enqueued yet, or main renaming or deleting after both joins
C26_FileStep ==
    \A p \in TmpNames :
       fs_tmp'[p] # fs_tmp[p]
       => \/ /\ recPc \in {"mkstemp", "write"}
             /\ recPc' \in {"write", "put"}
             /\ rec_tmp' = p
             /\ p \notin EnqueuedPaths
             /\ mainPc = "join_rec"
          \/ /\ mainPc \in {"file", "cleanup"}
             /\ WorkersEnded
             /\ UNCHANGED <<recVars, playVars, qVars>>

\* an item is enqueued only by rec_worker's put, with the file it has just
\* finished creating and writing
C26_PutStep ==
    enqueued' # enqueued
    => \/ enqueued' = Append(enqueued, Sentinel)
       \/ /\ recPc = "put"
          /\ enqueued' = Append(enqueued, QueueItem(rec_i, rec_tmp, rec_audio))
          /\ fs_tmp[rec_tmp] # Absent
          /\ rec_tmp \notin EnqueuedPaths
          /\ fs_tmp' = fs_tmp

\* C26: no temp file is accessed by two threads at once: rec_worker creates
\* and writes a file before enqueueing it and never changes an enqueued
\* file, play_worker's steps leave every file alone, and main reads, renames
\* and deletes only after both workers have ended.
C26_OneOwnerPerTempFile ==
    /\ [](mainPc \in AssemblerPcs => WorkersEnded)
    /\ [][C26_FileStep /\ C26_PutStep]_vars
    /\ [][play_worker => fs_tmp' = fs_tmp /\ fs_final' = fs_final]_vars

\* rec_worker writes chunk 2's file while play_worker plays chunk 1
C26_Witness ==
    /\ recPc = "write" /\ rec_i = 2
    /\ playPc = "play" /\ play_item.idx = 1
    /\ play_item.tmp_path # rec_tmp
    /\ play_item.tmp_path \in EnqueuedPaths
    /\ mainPc = "join_rec"

\* C27: during concat_wav_files at most one input is open, and it is the
\* one of the current iteration: before the next input is opened the
\* previous ones were read completely and closed; when the function has
\* ended, by return or by exception, no input and no writer is left open.
C27_OneInputOpen ==
    /\ Cardinality(win_open) <= 1
    /\ win_open \subseteq {w_i}
    /\ win_open # {} => wPc \in {"copy", "close_in"} /\ wout_open
    /\ wPc = "loop" => /\ win_open = {}
                       /\ out_stream.frames = FramesUpTo(w_i - 1)
    /\ wPc \in {"returned", "raised"} => win_open = {} /\ ~wout_open

\* the first input was copied and closed, then opening or reading the
\* second one raised
C27_Witness ==
    /\ wPc = "raised"
    /\ Len(in_paths) >= 2 /\ w_i = 2
    /\ in_paths[1].valid /\ in_paths[1].frames # <<>>
    /\ out_stream.frames = in_paths[1].frames
    /\ win_open = {} /\ ~wout_open

\* the saved destinations are pairwise distinct
DistinctDestinations ==
    \A i, j \in 1..Len(saved_files) :
       i # j => saved_files[i] # saved_files[j]

\* the i-th saved file exists and carries the index i in its name
SavedUnderIndex(i) ==
    /\ saved_files[i] \in DOMAIN fs_final
    /\ \E k \in 1..(Len(saved_files[i]) - Len(Pad3(i))) :
          /\ saved_files[i][k] = "_"
          /\ SubSeq(saved_files[i], k + 1, k + Len(Pad3(i))) = Pad3(i)

C29_SentinelOnEveryExit ==
    recPc \in {"done", "crashed"}
    => \E k \in 1..Len(enqueued) : enqueued[k] = Sentinel

\* C30 as stated: every chunk of chunk_text(T, 200) passes validate_text: it
\* is non-empty, holds a character that is no whitespace and has at most
\* 5000 characters
C30_ChunksPassValidation ==
    (vPc = "done" /\ v_in.fn = "chunks")
    => \A k \in 1..Len(chunks) :
          /\ chunks[k] # <<>>
          /\ \E j \in 1..Len(chunks[k]) : ~IsSpace(chunks[k][j])
          /\ Len(chunks[k]) <= TEXT_MAX
          /\ v_out.value[k].kind = "return"

====
